---- MODULE Spec2Model ----
(***************************************************************************)
(* Model of pyoxidizer/src/py_packaging/embedded_resource.rs:              *)
(* PrePackagedResources (the collector of resources before packaging),     *)
(* its package() operation, and EmbeddedPythonResources (the result).      *)
(*                                                                         *)
(* Representation.                                                         *)
(*  - A dotted name "foo.bar" is the sequence of its dot-separated         *)
(*    components <<"foo", "bar">>.  The components used are prefix-free,   *)
(*    so the byte order of the dotted strings (the order of a BTreeMap     *)
(*    keyed by String) is the lexicographic order of the component         *)
(*    sequences under the byte order of the components (Rank).             *)
(*  - Option<T>: None is <<>>, Some(x) is <<x>>.                           *)
(*  - A BTreeMap is a function; its iteration order is computed by         *)
(*    SortedKeys.  A BTreeSet is a set.                                    *)
(*  - A filesystem path is a string; PathBuf::join is Join.  A path whose  *)
(*    file name the code takes apart is a record [dir, file].              *)
(***************************************************************************)
EXTENDS Integers, Sequences, FiniteSets, TLC

VARIABLES
    policy,                   \* collector.policy (fixed at construction)
    resources,                \* collector.resources: BTreeMap<String, PrePackagedResource>
    extension_module_states,  \* BTreeMap<String, ExtensionModuleBuildState>
    ret,                      \* the last add_* or filter call and what it returned
    package_ret,              \* the last package() call: the tables it was called on
                              \* (self) and what it returned (ok, err, value: the
                              \* Option<EmbeddedPythonResources>)
    compile_log,              \* the compiler calls of the last package() run, in order, each with its outcome
    out,                      \* what the last read of the result returned
    ops                       \* number of add_* and filter calls made so far

vars == <<policy, resources, extension_module_states, ret, package_ret,
          compile_log, out, ops>>

\* Bounds of the model.
MaxOps == 2

None == <<>>
Some(x) == <<x>>
IsSome(o) == Len(o) = 1
Unwrap(o) == o[1]

----------------------------------------------------------------------------
(* Names and their order *)

Components == {"a", "bar", "foo", "libssl", "libz", "o", "so", "ssl", "z"}

\* Byte order of the component strings:
\* "a" < "bar" < "foo" < "libssl" < "libz" < "o" < "so" < "ssl" < "z".
Rank(c) ==
    CASE c = "a"      -> 1
      [] c = "bar"    -> 2
      [] c = "foo"    -> 3
      [] c = "libssl" -> 4
      [] c = "libz"   -> 5
      [] c = "o"      -> 6
      [] c = "so"     -> 7
      [] c = "ssl"    -> 8
      [] c = "z"      -> 9

\* String's Ord on two dotted names: a < b.
RECURSIVE NameLess(_, _)
NameLess(a, b) ==
    IF a = <<>> THEN b # <<>>
    ELSE IF b = <<>> THEN FALSE
    ELSE IF Head(a) = Head(b) THEN NameLess(Tail(a), Tail(b))
    ELSE Rank(Head(a)) < Rank(Head(b))

\* The dotted string of a name.
RECURSIVE Dotted(_)
Dotted(n) ==
    IF Len(n) = 0 THEN ""
    ELSE IF Len(n) = 1 THEN n[1]
    ELSE n[1] \o "." \o Dotted(Tail(n))

\* BTreeMap / BTreeSet iteration: the keys in ascending order.
RECURSIVE SortedKeys(_)
SortedKeys(S) ==
    IF S = {} THEN <<>>
    ELSE LET m == CHOOSE x \in S : \A y \in S \ {x} : NameLess(x, y)
         IN  <<m>> \o SortedKeys(S \ {m})

Keys(m) == SortedKeys(DOMAIN m)

\* BTreeMap::values(): the values in key order.
Values(m) == [i \in 1..Len(Keys(m)) |-> m[Keys(m)[i]]]

\* BTreeMap::insert / entry().or_insert_with() followed by an update.
Put(m, k, v) == [x \in DOMAIN m \cup {k} |-> IF x = k THEN v ELSE m[x]]

EmptyMap == [x \in {} |-> None]

----------------------------------------------------------------------------
(* Paths and payloads *)

\* PathBuf::join of a relative component onto p.
Join(p, c) == IF p = "" THEN c ELSE p \o "/" \o c

RECURSIVE JoinAll(_, _)
JoinAll(p, comps) ==
    IF comps = <<>> THEN p ELSE JoinAll(Join(p, Head(comps)), Tail(comps))

Memory(bytes) == [kind |-> "Memory", data |-> bytes]
PathLocation(p) == [kind |-> "Path", path |-> p]

\* The files of the distribution on disk, and their bytes.
\* A path of the distribution is [dir, file], file being the file name as a
\* dotted name (<<"libz", "so">> is libz.so).
FilePath(p) == Join(p.dir, Dotted(p.file))
FileSystem ==
    [p \in {"lib/bar.so", "lib/libz.so", "lib/z.so", "build/bar.o", "build/z.o"} |->
        CASE p = "lib/bar.so"  -> <<1>>
          [] p = "lib/libz.so" -> <<2>>
          [] p = "lib/z.so"    -> <<3>>
          [] p = "build/bar.o" -> <<4>>
          [] p = "build/z.o"   -> <<5>>]

\* DataLocation::resolve(): Some(bytes), or None when the read fails.
Resolve(location) ==
    IF location.kind = "Memory" THEN Some(location.data)
    ELSE IF FilePath(location.path) \in DOMAIN FileSystem
         THEN Some(FileSystem[FilePath(location.path)])
         ELSE None

----------------------------------------------------------------------------
(* PrePackagedResource and the collector (python_packaging::resource_collection) *)

Policies == {"InMemoryOnly", "FilesystemRelativeOnly",
             "PreferInMemoryFallbackFilesystemRelative"}

DefaultPrePackagedResource ==
    [flavor |-> "None", name |-> <<>>, is_package |-> FALSE,
     in_memory_source |-> None,
     in_memory_bytecode_source |-> None,
     in_memory_bytecode_opt1_source |-> None,
     in_memory_bytecode_opt2_source |-> None,
     in_memory_extension_module_shared_library |-> None,
     in_memory_resources |-> None,
     in_memory_package_distribution |-> None,
     in_memory_shared_library |-> None,
     shared_library_dependency_names |-> None,
     relative_path_module_source |-> None,
     relative_path_bytecode_source |-> None,
     relative_path_bytecode_opt1_source |-> None,
     relative_path_bytecode_opt2_source |-> None,
     relative_path_extension_module_shared_library |-> None,
     relative_path_package_resources |-> None,
     relative_path_package_distribution |-> None,
     relative_path_shared_library |-> None]

\* A call's outcome: Result<()> and the tables as the call leaves them.
Ok(res, st) == [ok |-> TRUE, err |-> None, resources |-> res, states |-> st]
Err(kind, module, res, st) ==
    [ok |-> FALSE, err |-> Some([kind |-> kind, module |-> module]),
     resources |-> res, states |-> st]

\* PythonResourceCollector::check_policy
check_policy(pol, location) ==
    CASE pol = "InMemoryOnly"           -> location = "InMemory"
      [] pol = "FilesystemRelativeOnly" -> location = "RelativePath"
      [] OTHER                          -> TRUE

\* resources.entry(key).or_insert_with(|| PrePackagedResource { flavor, name, ..default })
EntryOrInsert(res, key, flavor, name) ==
    IF key \in DOMAIN res THEN res[key]
    ELSE [DefaultPrePackagedResource EXCEPT !.flavor = flavor, !.name = name]

\* The entry of a collector add: created if absent; an existing entry takes the
\* flavor of the latest add.
CollectorEntry(res, key, flavor) ==
    [EntryOrInsert(res, key, flavor, key) EXCEPT !.flavor = flavor]

\* PythonModuleSource::resolve_path / PythonExtensionModule::resolve_path:
\* prefix/<package components>/<leaf><suffix>, or .../<leaf>/__init__<suffix>
\* for a package.
ModulePath(prefix, name, is_package, suffix) ==
    IF is_package
    THEN Join(JoinAll(prefix, name), "__init__" \o suffix)
    ELSE Join(JoinAll(prefix, SubSeq(name, 1, Len(name) - 1)), name[Len(name)] \o suffix)

LevelSuffix(level) ==
    CASE level = 0 -> "" [] level = 1 -> ".opt-1" [] level = 2 -> ".opt-2"

\* PythonModuleBytecodeFromSource::resolve_path:
\* prefix/<package components>/__pycache__/<leaf>.<cache_tag><level suffix>.pyc
BytecodePath(prefix, name, is_package, cache_tag, level) ==
    LET dir  == IF is_package THEN name ELSE SubSeq(name, 1, Len(name) - 1)
        leaf == IF is_package THEN "__init__" ELSE name[Len(name)]
    IN  Join(Join(JoinAll(prefix, dir), "__pycache__"),
             leaf \o "." \o cache_tag \o LevelSuffix(level) \o ".pyc")

PolicyError(res, st) == Err("PolicyViolation", None, res, st)

\* PythonResourceCollector::add_in_memory_python_module_source
add_in_memory_python_module_source(pol, res, st, module) ==
    IF ~check_policy(pol, "InMemory") THEN PolicyError(res, st)
    ELSE LET e == CollectorEntry(res, module.name, "Module")
         IN  Ok(Put(res, module.name,
                    [e EXCEPT !.is_package = module.is_package,
                              !.in_memory_source = Some(module.source)]), st)

\* PythonResourceCollector::add_relative_path_python_module_source
add_relative_path_python_module_source(pol, res, st, module, prefix) ==
    IF ~check_policy(pol, "RelativePath") THEN PolicyError(res, st)
    ELSE LET e == CollectorEntry(res, module.name, "Module")
         IN  Ok(Put(res, module.name,
                    [e EXCEPT !.is_package = module.is_package,
                              !.relative_path_module_source =
                                  Some(<<prefix, module.source>>)]), st)

\* PythonResourceCollector::add_in_memory_python_module_bytecode_from_source
add_in_memory_python_module_bytecode_from_source(pol, res, st, module) ==
    IF ~check_policy(pol, "InMemory") THEN PolicyError(res, st)
    ELSE LET e == [CollectorEntry(res, module.name, "Module")
                      EXCEPT !.is_package = module.is_package]
             s == Some(module.source)
         IN  Ok(Put(res, module.name,
                    CASE module.optimize_level = 0 ->
                            [e EXCEPT !.in_memory_bytecode_source = s]
                      [] module.optimize_level = 1 ->
                            [e EXCEPT !.in_memory_bytecode_opt1_source = s]
                      [] module.optimize_level = 2 ->
                            [e EXCEPT !.in_memory_bytecode_opt2_source = s]), st)

\* PythonResourceCollector::add_relative_path_python_module_bytecode_from_source
add_relative_path_python_module_bytecode_from_source(pol, res, st, module, prefix) ==
    IF ~check_policy(pol, "RelativePath") THEN PolicyError(res, st)
    ELSE LET e == [CollectorEntry(res, module.name, "Module")
                      EXCEPT !.is_package = module.is_package]
             s == Some(<<prefix, module.cache_tag, module.source>>)
         IN  Ok(Put(res, module.name,
                    CASE module.optimize_level = 0 ->
                            [e EXCEPT !.relative_path_bytecode_source = s]
                      [] module.optimize_level = 1 ->
                            [e EXCEPT !.relative_path_bytecode_opt1_source = s]
                      [] module.optimize_level = 2 ->
                            [e EXCEPT !.relative_path_bytecode_opt2_source = s]), st)

\* Option<BTreeMap>::get_or_insert_with(BTreeMap::new).insert(k, v)
OptionMapPut(o, k, v) == Some(Put(IF IsSome(o) THEN Unwrap(o) ELSE EmptyMap, k, v))

\* PythonResourceCollector::add_in_memory_python_package_resource
add_in_memory_python_package_resource(pol, res, st, resource) ==
    IF ~check_policy(pol, "InMemory") THEN PolicyError(res, st)
    ELSE LET e == CollectorEntry(res, resource.leaf_package, "Module")
         IN  Ok(Put(res, resource.leaf_package,
                    [e EXCEPT !.is_package = TRUE,
                              !.in_memory_resources =
                                  OptionMapPut(@, resource.relative_name, resource.data)]),
                st)

\* PythonResourceCollector::add_relative_path_python_package_resource
add_relative_path_python_package_resource(pol, res, st, prefix, resource) ==
    IF ~check_policy(pol, "RelativePath") THEN PolicyError(res, st)
    ELSE LET e    == CollectorEntry(res, resource.leaf_package, "Module")
             path == Join(JoinAll(prefix, resource.leaf_package),
                          Dotted(resource.relative_name))
         IN  Ok(Put(res, resource.leaf_package,
                    [e EXCEPT !.is_package = TRUE,
                              !.relative_path_package_resources =
                                  OptionMapPut(@, resource.relative_name,
                                               <<path, resource.data>>)]),
                st)

\* PythonResourceCollector::add_in_memory_package_distribution_resource
collector_add_in_memory_package_distribution_resource(pol, res, st, resource) ==
    IF ~check_policy(pol, "InMemory") THEN PolicyError(res, st)
    ELSE LET e == CollectorEntry(res, resource.package, "Module")
         IN  Ok(Put(res, resource.package,
                    [e EXCEPT !.is_package = TRUE,
                              !.in_memory_package_distribution =
                                  OptionMapPut(@, resource.name, resource.data)]),
                st)

\* PythonResourceCollector::add_relative_path_package_distribution_resource
\* (the file goes to prefix/<package>-<version>.dist-info/<name>)
collector_add_relative_path_package_distribution_resource(pol, res, st, prefix, resource) ==
    IF ~check_policy(pol, "RelativePath") THEN PolicyError(res, st)
    ELSE LET e    == CollectorEntry(res, resource.package, "Module")
             path == Join(Join(prefix, Dotted(resource.package) \o "-"
                                        \o resource.version \o ".dist-info"),
                          Dotted(resource.name))
         IN  Ok(Put(res, resource.package,
                    [e EXCEPT !.is_package = TRUE,
                              !.relative_path_package_distribution =
                                  OptionMapPut(@, resource.name,
                                               <<path, resource.data>>)]),
                st)

\* PythonResourceCollector::add_in_memory_python_extension_module_shared_library
add_in_memory_python_extension_module_shared_library(pol, res, st, module, is_package, data) ==
    IF ~check_policy(pol, "InMemory") THEN PolicyError(res, st)
    ELSE LET e == CollectorEntry(res, module, "Extension")
         IN  Ok(Put(res, module,
                    [e EXCEPT !.is_package = (@ \/ is_package),
                              !.in_memory_extension_module_shared_library =
                                  Some(Memory(data))]), st)

\* PythonResourceCollector::add_in_memory_shared_library
add_in_memory_shared_library(pol, res, st, name, location) ==
    IF ~check_policy(pol, "InMemory") THEN PolicyError(res, st)
    ELSE LET e == CollectorEntry(res, name, "SharedLibrary")
         IN  Ok(Put(res, name, [e EXCEPT !.in_memory_shared_library = Some(location)]), st)

\* PythonResourceCollector::add_builtin_python_extension_module
add_builtin_python_extension_module(pol, res, st, module) ==
    LET e == CollectorEntry(res, module.name, "BuiltinExtensionModule")
    IN  Ok(Put(res, module.name, [e EXCEPT !.is_package = module.is_package]), st)

\* PythonResourceCollector::add_relative_path_python_extension_module
add_relative_path_python_extension_module(pol, res, st, em, prefix) ==
    IF ~check_policy(pol, "RelativePath") THEN PolicyError(res, st)
    ELSE IF em.extension_data = None
    THEN Err("MissingPayload", Some(em.name), res, st)
    ELSE LET e    == CollectorEntry(res, em.name, "Extension")
             path == ModulePath(prefix, em.name, em.is_package, em.extension_file_suffix)
         IN  Ok(Put(res, em.name,
                    [e EXCEPT !.is_package = em.is_package,
                              !.relative_path_extension_module_shared_library =
                                  Some(<<prefix, path, Unwrap(em.extension_data)>>)]), st)

----------------------------------------------------------------------------
(* PrePackagedResources: the add operations *)

add_in_memory_module_source(pol, res, st, module) ==
    add_in_memory_python_module_source(pol, res, st, module)

add_relative_path_module_source(pol, res, st, module, prefix) ==
    add_relative_path_python_module_source(pol, res, st, module, prefix)

add_in_memory_module_bytecode(pol, res, st, module) ==
    add_in_memory_python_module_bytecode_from_source(pol, res, st, module)

add_relative_path_module_bytecode(pol, res, st, module, prefix) ==
    add_relative_path_python_module_bytecode_from_source(pol, res, st, module, prefix)

add_in_memory_package_resource(pol, res, st, resource) ==
    add_in_memory_python_package_resource(pol, res, st, resource)

add_relative_path_package_resource(pol, res, st, prefix, resource) ==
    add_relative_path_python_package_resource(pol, res, st, prefix, resource)

add_in_memory_package_distribution_resource(pol, res, st, resource) ==
    collector_add_in_memory_package_distribution_resource(pol, res, st, resource)

add_relative_path_package_distribution_resource(pol, res, st, prefix, resource) ==
    collector_add_relative_path_package_distribution_resource(pol, res, st, prefix, resource)

\* BTreeSet::from_iter(module.links.iter().filter_map(..)): the names of the
\* links picked, picked being the set of their positions.
LinkNames(links, picked) == {links[i].name : i \in picked}

IsFramework(link) == link.framework
IsSystem(link) == link.system
HasStaticPath(link) == IsSome(link.static_path)
HasDynamicPath(link) == IsSome(link.dynamic_path)

\* Mutant: the call checks the policy like the in-memory adds.
add_builtin_distribution_extension_module_checked(pol, res, st, module) ==
    IF ~check_policy(pol, "InMemory")
    THEN Err("PolicyViolation", Some(module.module), res, st)
    ELSE Ok(res, Put(st, module.module,
                     [init_fn |-> module.init_fn,
                      link_object_files |-> <<>>,
                      link_frameworks |-> {}, link_system_libraries |-> {},
                      link_static_libraries |-> {}, link_dynamic_libraries |-> {},
                      link_external_libraries |-> {}]))

add_builtin_distribution_extension_module(pol, res, st, module) ==
    Ok(res,
       Put(st, module.module,
           [init_fn |-> module.init_fn,
            link_object_files |->
                IF module.builtin_default THEN <<>>
                ELSE [i \in 1..Len(module.object_paths) |->
                         PathLocation(module.object_paths[i])],
            link_frameworks |-> LinkNames(module.links,
                          {j \in DOMAIN module.links : IsFramework(module.links[j])}),
            link_system_libraries |-> LinkNames(module.links,
                          {j \in DOMAIN module.links : IsSystem(module.links[j])}),
            link_static_libraries |-> LinkNames(module.links,
                          {j \in DOMAIN module.links : HasStaticPath(module.links[j])}),
            link_dynamic_libraries |-> LinkNames(module.links,
                          {j \in DOMAIN module.links : HasDynamicPath(module.links[j])}),
            link_external_libraries |-> {}]))

\* The loop over module.links of add_in_memory_distribution_extension_module.
RECURSIVE InMemoryLinks(_, _, _, _, _)
InMemoryLinks(pol, res, st, module, links) ==
    IF links = <<>> THEN Ok(res, st)
    ELSE IF ~IsSome(Head(links).dynamic_path)
    THEN InMemoryLinks(pol, res, st, module, Tail(links))
    ELSE LET shared_library == Unwrap(Head(links).dynamic_path)
             name  == shared_library.file
             added == add_in_memory_shared_library(pol, res, st, name,
                                                   PathLocation(shared_library))
         IN  IF ~added.ok THEN added
             ELSE LET r == added.resources
                      deps == r[module.module].shared_library_dependency_names
                      r2 == [r EXCEPT ![module.module].shared_library_dependency_names =
                                Some((IF IsSome(deps) THEN Unwrap(deps) ELSE <<>>)
                                     \o <<name>>)]
                  IN  InMemoryLinks(pol, r2, st, module, Tail(links))

add_in_memory_distribution_extension_module(pol, res, st, module) ==
    IF module.shared_library = None
    THEN Err("MissingPayload", Some(module.module), res, st)
    ELSE LET data == Resolve(PathLocation(Unwrap(module.shared_library)))
         IN  IF data = None THEN Err("IoError", None, res, st)
             ELSE LET added == add_in_memory_python_extension_module_shared_library(
                                   pol, res, st, module.module, FALSE, Unwrap(data))
                  IN  IF ~added.ok THEN added
                      ELSE InMemoryLinks(pol, added.resources, st, module, module.links)

\* The loop over module.links of add_relative_path_distribution_extension_module.
RECURSIVE RelativePathLinks(_, _, _)
RelativePathLinks(res, prefix, links) ==
    IF links = <<>> THEN res
    ELSE IF ~IsSome(Head(links).dynamic_path)
    THEN RelativePathLinks(res, prefix, Tail(links))
    ELSE LET shared_library == Unwrap(Head(links).dynamic_path)
             file_name == shared_library.file
             resource  == EntryOrInsert(res, Head(links).name, "SharedLibrary", file_name)
         IN  RelativePathLinks(
                 Put(res, Head(links).name,
                     [resource EXCEPT !.relative_path_shared_library =
                         Some(<<prefix, PathLocation(shared_library)>>)]),
                 prefix, Tail(links))

\* Mutant: a module without a shared library is skipped without an error.
PlaceRelativePathDistributionExtensionModule_lenient(res, st, prefix, module) ==
    IF module.shared_library = None
    THEN Ok(res, st)
    ELSE LET entry == EntryOrInsert(res, module.module, "Extension", module.module)
             extension_path == Unwrap(module.shared_library)
             install_path == Join(prefix, Dotted(extension_path.file))
             r == Put(res, module.module,
                      [entry EXCEPT !.is_package = FALSE,
                                    !.relative_path_extension_module_shared_library =
                                        Some(<<prefix, install_path,
                                               PathLocation(extension_path)>>)])
         IN  Ok(RelativePathLinks(r, prefix, module.links), st)

\* add_relative_path_distribution_extension_module after its policy check:
\* the shared library check, the module's entry, the loop over the links.
PlaceRelativePathDistributionExtensionModule(res, st, prefix, module) ==
    IF module.shared_library = None
    THEN Err("MissingPayload", Some(module.module), res, st)
    ELSE LET entry == EntryOrInsert(res, module.module, "Extension", module.module)
             extension_path == Unwrap(module.shared_library)
             install_path == Join(prefix, Dotted(extension_path.file))
             r == Put(res, module.module,
                      [entry EXCEPT !.is_package = FALSE,
                                    !.relative_path_extension_module_shared_library =
                                        Some(<<prefix, install_path,
                                               PathLocation(extension_path)>>)])
         IN  Ok(RelativePathLinks(r, prefix, module.links), st)

\* Mutant: the policy check is left out.
add_relative_path_distribution_extension_module_unchecked(pol, res, st, prefix, module) ==
    PlaceRelativePathDistributionExtensionModule(res, st, prefix, module)

add_relative_path_distribution_extension_module(pol, res, st, prefix, module) ==
    IF ~check_policy(pol, "RelativePath") THEN PolicyError(res, st)
    ELSE PlaceRelativePathDistributionExtensionModule(res, st, prefix, module)

\* BTreeSet::from_iter(module.libraries.iter().cloned())
SeqToSet(s) == {s[i] : i \in 1..Len(s)}

\* Mutant: the module's libraries are recorded as system libraries.
add_builtin_extension_module_system(pol, res, st, module) ==
    IF module.object_file_data = <<>>
    THEN Err("MissingPayload", Some(module.name), res, st)
    ELSE LET added == add_builtin_python_extension_module(pol, res, st, module)
         IN  IF ~added.ok THEN added
             ELSE Ok(added.resources,
                     Put(st, module.name,
                         [init_fn |-> module.init_fn,
                          link_object_files |->
                              [i \in 1..Len(module.object_file_data) |->
                                  Memory(module.object_file_data[i])],
                          link_frameworks |-> {},
                          link_system_libraries |-> SeqToSet(module.libraries),
                          link_static_libraries |-> {},
                          link_dynamic_libraries |-> {},
                          link_external_libraries |-> {}]))

add_builtin_extension_module(pol, res, st, module) ==
    IF module.object_file_data = <<>>
    THEN Err("MissingPayload", Some(module.name), res, st)
    ELSE LET added == add_builtin_python_extension_module(pol, res, st, module)
         IN  IF ~added.ok THEN added
             ELSE Ok(added.resources,
                     Put(st, module.name,
                         [init_fn |-> module.init_fn,
                          link_object_files |->
                              [i \in 1..Len(module.object_file_data) |->
                                  Memory(module.object_file_data[i])],
                          link_frameworks |-> {},
                          link_system_libraries |-> {},
                          link_static_libraries |-> {},
                          link_dynamic_libraries |-> {},
                          link_external_libraries |-> SeqToSet(module.libraries)]))

add_in_memory_extension_module_shared_library(pol, res, st, module, is_package, data) ==
    add_in_memory_python_extension_module_shared_library(pol, res, st, module,
                                                         is_package, data)

add_relative_path_extension_module(pol, res, st, em, prefix) ==
    add_relative_path_python_extension_module(pol, res, st, em, prefix)

\* filtering::filter_btreemap: drop every key that is not in the name set.
filter_btreemap(m, names) == [k \in DOMAIN m \cap names |-> m[k]]

\* Mutant: only the resource table is filtered.
filter_from_files_resources_only(pol, res, st, resolved) ==
    IF resolved = None THEN Err("IoError", None, res, st)
    ELSE Ok(filter_btreemap(res, Unwrap(resolved)), st)

\* resolved is what resolve_resource_names_from_files returned: Some(names),
\* or None when it failed.
filter_from_files(pol, res, st, resolved) ==
    IF resolved = None THEN Err("IoError", None, res, st)
    ELSE Ok(filter_btreemap(res, Unwrap(resolved)),
            filter_btreemap(st, Unwrap(resolved)))

----------------------------------------------------------------------------
(* Packaging: python_packed_resources::data::Resource, the file manifest,  *)
(* the bytecode compiler                                                   *)

DefaultResource ==
    [flavor |-> "None", name |-> <<>>, is_package |-> FALSE,
     in_memory_source |-> None,
     in_memory_bytecode |-> None,
     in_memory_bytecode_opt1 |-> None,
     in_memory_bytecode_opt2 |-> None,
     in_memory_extension_module_shared_library |-> None,
     in_memory_resources |-> None,
     in_memory_package_distribution |-> None,
     in_memory_shared_library |-> None,
     shared_library_dependency_names |-> None,
     relative_path_module_source |-> None,
     relative_path_module_bytecode |-> None,
     relative_path_module_bytecode_opt1 |-> None,
     relative_path_module_bytecode_opt2 |-> None,
     relative_path_extension_module_shared_library |-> None,
     relative_path_package_resources |-> None,
     relative_path_package_distribution |-> None]

\* Option<DataLocation> -> Option<bytes>; the locations converted are readable
\* (ResourceReadable is checked first).
ResolveOption(o) == IF IsSome(o) THEN Resolve(Unwrap(o)) ELSE None

\* Option<BTreeMap<name, DataLocation>> -> Option<BTreeMap<name, bytes>>
ResolveMap(o) ==
    IF IsSome(o) THEN Some([k \in DOMAIN Unwrap(o) |-> Unwrap(Resolve(Unwrap(o)[k]))])
    ELSE None

\* Option<BTreeMap<name, (path, DataLocation)>> -> Option<BTreeMap<name, path>>
PathMap(o) ==
    IF IsSome(o) THEN Some([k \in DOMAIN Unwrap(o) |-> Unwrap(o)[k][1]]) ELSE None

MapLocations(o) == IF IsSome(o) THEN {Unwrap(o)[k] : k \in DOMAIN Unwrap(o)} ELSE {}

\* The in-memory payloads Resource::try_from reads.
InMemoryLocations(module) ==
    {Unwrap(o) : o \in {x \in {module.in_memory_source,
                               module.in_memory_extension_module_shared_library,
                               module.in_memory_shared_library} : IsSome(x)}}
    \cup MapLocations(module.in_memory_resources)
    \cup MapLocations(module.in_memory_package_distribution)

ResourceReadable(module) == \A l \in InMemoryLocations(module) : Resolve(l) # None

\* Resource::try_from(&PrePackagedResource), for a readable resource: the
\* bytecode fields are left for package() to fill.
ResourceTryFrom(module) ==
    [DefaultResource EXCEPT
        !.flavor = module.flavor,
        !.name = module.name,
        !.is_package = module.is_package,
        !.in_memory_source = ResolveOption(module.in_memory_source),
        !.in_memory_extension_module_shared_library =
            ResolveOption(module.in_memory_extension_module_shared_library),
        !.in_memory_resources = ResolveMap(module.in_memory_resources),
        !.in_memory_package_distribution =
            ResolveMap(module.in_memory_package_distribution),
        !.in_memory_shared_library = ResolveOption(module.in_memory_shared_library),
        !.shared_library_dependency_names = module.shared_library_dependency_names,
        !.relative_path_module_source =
            IF IsSome(module.relative_path_module_source)
            THEN Some(ModulePath(Unwrap(module.relative_path_module_source)[1],
                                 module.name, module.is_package, ".py"))
            ELSE None,
        !.relative_path_extension_module_shared_library =
            IF IsSome(module.relative_path_extension_module_shared_library)
            THEN Some(Unwrap(module.relative_path_extension_module_shared_library)[2])
            ELSE None,
        !.relative_path_package_resources =
            PathMap(module.relative_path_package_resources),
        !.relative_path_package_distribution =
            PathMap(module.relative_path_package_distribution)]

\* module_util::packages_from_module_name: the proper dotted ancestors of a name.
packages_from_module_name(name) == {SubSeq(name, 1, i) : i \in 1..(Len(name) - 1)}

\* module_util::packages_from_module_names
packages_from_module_names(names) == UNION {packages_from_module_name(n) : n \in names}

\* resource_collection::populate_parent_packages: every ancestor package of a
\* key gets an entry (created if missing) that is a package.
populate_parent_packages(res) ==
    LET packages == packages_from_module_names(DOMAIN res)
    IN  [k \in DOMAIN res \cup packages |->
            IF k \in packages
            THEN [EntryOrInsert(res, k, "Module", k) EXCEPT !.is_package = TRUE]
            ELSE res[k]]

\* The file installs of one resource: <<path, location, executable>> each.
ResourceFileInstalls(resource) ==
    (IF IsSome(resource.relative_path_module_source)
     THEN <<<<ModulePath(Unwrap(resource.relative_path_module_source)[1],
                         resource.name, resource.is_package, ".py"),
              Unwrap(resource.relative_path_module_source)[2], FALSE>>>>
     ELSE <<>>)
    \o (IF IsSome(resource.relative_path_package_resources)
        THEN LET m == Unwrap(resource.relative_path_package_resources)
             IN  [i \in 1..Len(Keys(m)) |-> <<m[Keys(m)[i]][1], m[Keys(m)[i]][2], FALSE>>]
        ELSE <<>>)
    \o (IF IsSome(resource.relative_path_package_distribution)
        THEN LET m == Unwrap(resource.relative_path_package_distribution)
             IN  [i \in 1..Len(Keys(m)) |-> <<m[Keys(m)[i]][1], m[Keys(m)[i]][2], FALSE>>]
        ELSE <<>>)
    \o (IF IsSome(resource.relative_path_extension_module_shared_library)
        THEN <<<<Unwrap(resource.relative_path_extension_module_shared_library)[2],
                 Unwrap(resource.relative_path_extension_module_shared_library)[3],
                 TRUE>>>>
        ELSE <<>>)
    \o (IF IsSome(resource.relative_path_shared_library)
        THEN <<<<Join(Unwrap(resource.relative_path_shared_library)[1],
                      Dotted(resource.name)),
                 Unwrap(resource.relative_path_shared_library)[2], TRUE>>>>
        ELSE <<>>)

RECURSIVE Flatten(_)
Flatten(ss) == IF ss = <<>> THEN <<>> ELSE Head(ss) \o Flatten(Tail(ss))

\* PythonResourceCollector::derive_file_installs: the installs of every
\* resource, in table order.
derive_file_installs(res) ==
    Flatten([i \in 1..Len(Keys(res)) |-> ResourceFileInstalls(res[Keys(res)[i]])])

\* FileManifest::add_file
add_file(m, path, content) == Put(m, path, content)

\* The loop of derive_extra_files: Some(manifest), or None when a payload
\* cannot be read.
RECURSIVE AddInstalls(_, _)
AddInstalls(m, installs) ==
    IF installs = <<>> THEN Some(m)
    ELSE LET data == Resolve(Head(installs)[2])
         IN  IF data = None THEN None
             ELSE AddInstalls(add_file(m, Head(installs)[1],
                                       [data |-> Unwrap(data),
                                        executable |-> Head(installs)[3]]),
                              Tail(installs))

derive_extra_files(res) == AddInstalls(EmptyMap, derive_file_installs(res))

\* BytecodeCompiler::compile: a black box; its output is determined by the call.
Compile(call) == <<"compiled", call>>

----------------------------------------------------------------------------
(* PrePackagedResources::package *)

\* The state of the loop over input_resources: the Resource being built, the
\* manifest, the compiler calls made so far, each with whether it succeeded,
\* and the error that ended the run.
\* fail_at is the number of the compiler call that fails (0: none does).

\* The six "if let Some(..) = &module.<source>" blocks of the loop body, in
\* order: the field read, the level and mode compiled with, the field of the
\* Resource written.
BytecodeBlocks ==
    << [source |-> "in_memory_bytecode_source", level |-> 0, mode |-> "Bytecode",
        field |-> "in_memory_bytecode"],
       [source |-> "in_memory_bytecode_opt1_source", level |-> 1, mode |-> "Bytecode",
        field |-> "in_memory_bytecode_opt1"],
       [source |-> "in_memory_bytecode_opt2_source", level |-> 2, mode |-> "Bytecode",
        field |-> "in_memory_bytecode_opt2"],
       [source |-> "relative_path_bytecode_source", level |-> 0,
        mode |-> "PycUncheckedHash", field |-> "relative_path_module_bytecode"],
       [source |-> "relative_path_bytecode_opt1_source", level |-> 1,
        mode |-> "PycUncheckedHash", field |-> "relative_path_module_bytecode_opt1"],
       \* line 586 stores the level-2 path in relative_path_module_bytecode_opt1
       [source |-> "relative_path_bytecode_opt2_source", level |-> 2,
        mode |-> "PycUncheckedHash", field |-> "relative_path_module_bytecode_opt1"] >>

\* One block, its source being present.  In-memory: entry.<field> =
\* Some(compile(&location.resolve()?, name, level, Bytecode)?).  Relative path:
\* path = resolve_path(prefix); extra_files.add_file(path, compile(..)?, not
\* executable); entry.<field> = Some(path).
CompileBlock(s, source, name, block, fail_at) ==
    LET in_memory == block.mode = "Bytecode"
        data == Resolve(IF in_memory THEN source ELSE source[3])
        call == [source |-> Unwrap(data), name |-> name, level |-> block.level,
                 mode |-> block.mode]
        path == BytecodePath(source[1], name, s.entry.is_package, source[2],
                             block.level)
    IN  IF data = None
        THEN [s EXCEPT !.err = Some([kind |-> "IoError", module |-> None])]
        ELSE IF Len(s.log) + 1 = fail_at
        THEN [s EXCEPT !.log = Append(@, [call |-> call, ok |-> FALSE]),
                       !.err = Some([kind |-> "CompileError", module |-> Some(name)])]
        ELSE IF in_memory
        THEN [s EXCEPT !.log = Append(@, [call |-> call, ok |-> TRUE]),
                       !.entry[block.field] = Some(Compile(call))]
        ELSE [s EXCEPT !.log = Append(@, [call |-> call, ok |-> TRUE]),
                       !.extra_files = add_file(@, path, [data |-> Compile(call),
                                                          executable |-> FALSE]),
                       !.entry[block.field] = Some(path)]

\* Mutant: the blocks after a failed one still run.
RECURSIVE BlockLoop_no_stop(_, _, _, _, _)
BlockLoop_no_stop(s, module, name, blocks, fail_at) ==
    IF blocks = <<>> THEN s
    ELSE IF ~IsSome(module[Head(blocks).source])
    THEN BlockLoop_no_stop(s, module, name, Tail(blocks), fail_at)
    ELSE BlockLoop_no_stop(CompileBlock(s, Unwrap(module[Head(blocks).source]), name,
                                        Head(blocks), fail_at),
                           module, name, Tail(blocks), fail_at)

RECURSIVE BlockLoop(_, _, _, _, _)
BlockLoop(s, module, name, blocks, fail_at) ==
    IF blocks = <<>> \/ IsSome(s.err) THEN s
    ELSE IF ~IsSome(module[Head(blocks).source])
    THEN BlockLoop(s, module, name, Tail(blocks), fail_at)
    ELSE BlockLoop(CompileBlock(s, Unwrap(module[Head(blocks).source]), name,
                                Head(blocks), fail_at),
                   module, name, Tail(blocks), fail_at)

\* The body of the loop for one (name, module) of input_resources.
PackageEntry(s, name, module, fail_at) ==
    IF IsSome(s.err) THEN s
    ELSE IF ~ResourceReadable(module)
    THEN [s EXCEPT !.err = Some([kind |-> "IoError", module |-> None])]
    ELSE LET done == BlockLoop([s EXCEPT !.entry = ResourceTryFrom(module)],
                               module, name, BytecodeBlocks, fail_at)
         IN  IF IsSome(done.err) THEN done
             ELSE [done EXCEPT !.resources = Put(@, name, done.entry)]

\* Mutant: the entries are visited from the last name to the first.
RECURSIVE PackageLoop_reversed(_, _, _, _)
PackageLoop_reversed(s, names, input_resources, fail_at) ==
    IF names = <<>> THEN s
    ELSE PackageLoop_reversed(PackageEntry(s, names[Len(names)],
                                           input_resources[names[Len(names)]], fail_at),
                              SubSeq(names, 1, Len(names) - 1), input_resources,
                              fail_at)

RECURSIVE PackageLoop(_, _, _, _)
PackageLoop(s, names, input_resources, fail_at) ==
    IF names = <<>> THEN s
    ELSE PackageLoop(PackageEntry(s, Head(names), input_resources[Head(names)], fail_at),
                     Tail(names), input_resources, fail_at)

\* Mutant: the extension module states' names are left out.
DerivedPackageNames_resources_only(result_resources, st) ==
    packages_from_module_names(DOMAIN result_resources)

\* derived_package_names: the ancestor packages of the result's keys and of the
\* extension module states' keys.
DerivedPackageNames(result_resources, st) ==
    packages_from_module_names(DOMAIN result_resources)
        \cup packages_from_module_names(DOMAIN st)

\* for package in derived_package_names { entry or default; is_package = true }
MarkPackages(result_resources, packages) ==
    [k \in DOMAIN result_resources \cup packages |->
        IF k \in packages
        THEN [(IF k \in DOMAIN result_resources THEN result_resources[k]
               ELSE [DefaultResource EXCEPT !.name = k])
              EXCEPT !.is_package = TRUE]
        ELSE result_resources[k]]

\* package(): [ok, err, value (the EmbeddedPythonResources), log (the compiler
\* calls made)].  compiler_ok: whether BytecodeCompiler::new succeeds.
package(res, st, compiler_ok, fail_at) ==
    LET input_resources == populate_parent_packages(res)
        extra_files     == derive_extra_files(res)
        failed(kind, module, log) ==
            [ok |-> FALSE, err |-> Some([kind |-> kind, module |-> module]),
             value |-> None, log |-> log]
    IN  IF extra_files = None THEN failed("IoError", None, <<>>)
        ELSE IF ~compiler_ok THEN failed("CompilerStart", None, <<>>)
        ELSE LET s == PackageLoop([entry |-> DefaultResource, resources |-> EmptyMap,
                                   extra_files |-> Unwrap(extra_files),
                                   log |-> <<>>, err |-> None],
                                  Keys(input_resources), input_resources, fail_at)
             IN  IF IsSome(s.err)
                 THEN failed(Unwrap(s.err).kind, Unwrap(s.err).module, s.log)
                 ELSE [ok |-> TRUE, err |-> None,
                       value |-> Some([resources |->
                                           MarkPackages(s.resources,
                                               DerivedPackageNames(s.resources, st)),
                                       extra_files |-> s.extra_files,
                                       extension_modules |-> st]),
                       log |-> s.log]

\* The number of compiler calls a complete run over res makes.
NumCompileCalls(res) ==
    LET input_resources == populate_parent_packages(res)
    IN  Cardinality({<<k, f>> \in (DOMAIN input_resources)
                        \X {"in_memory_bytecode_source",
                            "in_memory_bytecode_opt1_source",
                            "in_memory_bytecode_opt2_source",
                            "relative_path_bytecode_source",
                            "relative_path_bytecode_opt1_source",
                            "relative_path_bytecode_opt2_source"} :
                     IsSome(input_resources[k][f])})

----------------------------------------------------------------------------
(* EmbeddedPythonResources *)

\* Mutant: the names are written in the opposite order.
write_blobs_reversed(e, encode_ok) ==
    [op |-> "write_blobs",
     module_names |-> [i \in 1..Len(Keys(e.resources)) |->
                          Keys(e.resources)[Len(Keys(e.resources)) + 1 - i]],
     encoder_input |-> Values(e.resources),
     ok |-> encode_ok]

\* write_blobs: the lines written to module_names (one name per line) and the
\* list handed to write_embedded_resources_v1, whose outcome is encode_ok.
write_blobs(e, encode_ok) ==
    [op |-> "write_blobs",
     module_names |-> Keys(e.resources),
     encoder_input |-> Values(e.resources),
     ok |-> encode_ok]

\* Mutant: modules without an initializer are listed with an empty symbol.
RECURSIVE BuiltinLoop_all(_, _)
BuiltinLoop_all(names, extension_modules) ==
    IF names = <<>> THEN <<>>
    ELSE LET state == extension_modules[Head(names)]
         IN  << <<Head(names),
                  IF IsSome(state.init_fn) THEN Unwrap(state.init_fn) ELSE "">> >>
             \o BuiltinLoop_all(Tail(names), extension_modules)

\* The filter_map of builtin_extensions over the extension modules, in table
\* order.
RECURSIVE BuiltinLoop(_, _)
BuiltinLoop(names, extension_modules) ==
    IF names = <<>> THEN <<>>
    ELSE LET state == extension_modules[Head(names)]
         IN  (IF IsSome(state.init_fn)
              THEN << <<Head(names), Unwrap(state.init_fn)>> >>
              ELSE <<>>)
             \o BuiltinLoop(Tail(names), extension_modules)

builtin_extensions(e) ==
    [op |-> "builtin_extensions",
     value |-> BuiltinLoop(Keys(e.extension_modules), e.extension_modules)]

\* FileManifest::add_manifest into an empty manifest
add_manifest(m, other) == [p \in DOMAIN m \cup DOMAIN other |->
                              IF p \in DOMAIN other THEN other[p] ELSE m[p]]

\* Mutant: the result's files are not merged in.
extra_install_files_empty(e) ==
    [op |-> "extra_install_files", value |-> EmptyMap]

extra_install_files(e) ==
    [op |-> "extra_install_files", value |-> add_manifest(EmptyMap, e.extra_files)]

\* Mutant: the dynamic libraries are left out of link_libraries.
RECURSIVE LinkingLoop_no_dynamic(_, _, _)
LinkingLoop_no_dynamic(info, names, extension_modules) ==
    IF names = <<>> THEN info
    ELSE LET state == extension_modules[Head(names)]
         IN  LinkingLoop_no_dynamic(
                 [object_files |-> info.object_files \o state.link_object_files,
                  link_frameworks |-> info.link_frameworks \cup state.link_frameworks,
                  link_system_libraries |->
                      info.link_system_libraries \cup state.link_system_libraries,
                  link_libraries |-> info.link_libraries \cup state.link_static_libraries,
                  link_libraries_external |->
                      info.link_libraries_external \cup state.link_external_libraries],
                 Tail(names), extension_modules)

\* The loop of resolve_libpython_linking_info over the extension modules, in
\* table order.
RECURSIVE LinkingLoop(_, _, _)
LinkingLoop(info, names, extension_modules) ==
    IF names = <<>> THEN info
    ELSE LET state == extension_modules[Head(names)]
         IN  LinkingLoop(
                 [object_files |-> info.object_files \o state.link_object_files,
                  link_frameworks |-> info.link_frameworks \cup state.link_frameworks,
                  link_system_libraries |->
                      info.link_system_libraries \cup state.link_system_libraries,
                  link_libraries |->
                      (info.link_libraries \cup state.link_static_libraries)
                          \cup state.link_dynamic_libraries,
                  link_libraries_external |->
                      info.link_libraries_external \cup state.link_external_libraries],
                 Tail(names), extension_modules)

resolve_libpython_linking_info(e) ==
    [op |-> "resolve_libpython_linking_info",
     value |-> LinkingLoop([object_files |-> <<>>, link_libraries |-> {},
                            link_frameworks |-> {}, link_system_libraries |-> {},
                            link_libraries_external |-> {}],
                           Keys(e.extension_modules), e.extension_modules)]

----------------------------------------------------------------------------
(* The callers' inputs *)

DEFAULT_CACHE_TAG == "cpython-37"

\* The install prefixes: those of the tests for the calls the tests make.
Prefixes == {"", "prefix"}
OnePrefix == {"prefix"}

\* PythonModuleSource
ModuleSources ==
    {[name |-> n[1], source |-> Memory(<<42>>), is_package |-> n[2],
      cache_tag |-> DEFAULT_CACHE_TAG] :
        n \in {<< <<"foo">>, FALSE >>, << <<"foo">>, TRUE >>,
               << <<"foo", "bar">>, FALSE >>}}

\* PythonModuleBytecodeFromSource
BytecodeModules ==
    {[name |-> n[1], source |-> Memory(<<42>>), optimize_level |-> n[2],
      is_package |-> FALSE, cache_tag |-> DEFAULT_CACHE_TAG] :
        n \in {<< <<"foo">>, 0 >>, << <<"foo">>, 1 >>, << <<"foo">>, 2 >>,
               << <<"foo", "bar">>, 0 >>}}
    \cup \* a source file that cannot be read
         {[name |-> <<"foo", "bar">>,
           source |-> PathLocation([dir |-> "lib", file |-> <<"bar", "py">>]),
           optimize_level |-> 1, is_package |-> FALSE,
           cache_tag |-> DEFAULT_CACHE_TAG]}

\* PythonPackageResource
PackageResources ==
    {[leaf_package |-> <<"foo">>, relative_name |-> <<"z">>, data |-> Memory(<<42>>)]}

\* PythonPackageDistributionResource
PackageDistributionResources ==
    {[package |-> <<"foo">>, version |-> "1.0", name |-> <<"z">>,
      data |-> Memory(<<42>>)]}

Link(name, framework, system, static_path, dynamic_path) ==
    [name |-> name, framework |-> framework, system |-> system,
     static_path |-> static_path, dynamic_path |-> dynamic_path]

\* DistributionExtensionModule
DistributionExtensionModules ==
    { \* the module of test_add_distribution_extension_module
      [module |-> <<"foo", "bar">>, init_fn |-> None, builtin_default |-> FALSE,
       object_paths |-> <<>>, shared_library |-> None, links |-> <<>>],
      [module |-> <<"foo", "bar">>, init_fn |-> Some("PyInit_bar"),
       builtin_default |-> TRUE,
       object_paths |-> <<[dir |-> "build", file |-> <<"bar", "o">>]>>,
       shared_library |-> Some([dir |-> "lib", file |-> <<"bar", "so">>]),
       links |-> <<Link(<<"z">>, FALSE, TRUE, None,
                        Some([dir |-> "lib", file |-> <<"libz", "so">>])),
                   Link(<<"ssl">>, FALSE, FALSE,
                        Some([dir |-> "lib", file |-> <<"libssl", "a">>]), None)>>],
      [module |-> <<"z">>, init_fn |-> Some("PyInit_z"), builtin_default |-> FALSE,
       object_paths |-> <<[dir |-> "build", file |-> <<"z", "o">>]>>,
       shared_library |-> Some([dir |-> "lib", file |-> <<"z", "so">>]),
       links |-> <<Link(<<"z">>, FALSE, TRUE, None, None),
                   Link(<<"foo">>, TRUE, FALSE, None, None)>>] }

\* PythonExtensionModule
ExtensionModules ==
    { \* the module of test_add_relative_path_extension_module
      [name |-> <<"foo", "bar">>, init_fn |-> Some("PyInit_bar"),
       extension_file_suffix |-> ".so", extension_data |-> Some(Memory(<<42>>)),
       object_file_data |-> <<>>, is_package |-> FALSE, libraries |-> <<>>],
      \* the module of test_add_extension_module_data, with libraries
      [name |-> <<"foo", "bar">>, init_fn |-> Some(""),
       extension_file_suffix |-> "", extension_data |-> None,
       object_file_data |-> << <<42>> >>, is_package |-> FALSE,
       libraries |-> << <<"z">>, <<"ssl">>, <<"z">> >>],
      [name |-> <<"z">>, init_fn |-> None,
       extension_file_suffix |-> ".so", extension_data |-> Some(Memory(<<7>>)),
       object_file_data |-> << <<7>>, <<8>> >>, is_package |-> FALSE,
       libraries |-> << <<"z">> >>],
      \* the module of test_add_extension_module_data
      [name |-> <<"foo", "bar">>, init_fn |-> Some(""),
       extension_file_suffix |-> "", extension_data |-> None,
       object_file_data |-> << <<42>> >>, is_package |-> FALSE,
       libraries |-> <<>>] }

\* (module, is_package, data) of add_in_memory_extension_module_shared_library
SharedLibraryInputs ==
    {[module |-> <<"foo", "bar">>, is_package |-> FALSE, data |-> <<42>>],
     [module |-> <<"foo">>, is_package |-> TRUE, data |-> <<42>>]}

\* What resolve_resource_names_from_files returns: a name set, or a failure.
ResolvedNames ==
    {None, Some({}), Some({<<"foo">>, <<"z">>}),
     Some({<<"foo", "bar">>, <<"z">>, <<"libz", "so">>})}

----------------------------------------------------------------------------
(* The state machine: one action per operation *)

Init ==
    /\ policy \in Policies
    /\ resources = EmptyMap
    /\ extension_module_states = EmptyMap
    /\ ret = [op |-> "new", location |-> "None", arg |-> None, prefix |-> None,
              ok |-> TRUE, err |-> None]
    /\ package_ret = None
    /\ compile_log = <<>>
    /\ out = None
    /\ ops = 0

\* A call on the collector that returned r.
Call(op, location, arg, prefix, r) ==
    /\ ops < MaxOps
    /\ ops' = ops + 1
    /\ resources' = r.resources
    /\ extension_module_states' = r.states
    /\ ret' = [op |-> op, location |-> location, arg |-> arg, prefix |-> prefix,
               ok |-> r.ok, err |-> r.err]
    /\ out' = None
    /\ UNCHANGED <<policy, package_ret, compile_log>>

AddInMemoryModuleSource ==
    \E module \in ModuleSources :
        Call("add_in_memory_module_source", "InMemory", module, None,
             add_in_memory_module_source(policy, resources, extension_module_states,
                                         module))

AddRelativePathModuleSource ==
    \E module \in ModuleSources, prefix \in Prefixes :
        Call("add_relative_path_module_source", "RelativePath", module, Some(prefix),
             add_relative_path_module_source(policy, resources, extension_module_states,
                                             module, prefix))

AddInMemoryModuleBytecode ==
    \E module \in BytecodeModules :
        Call("add_in_memory_module_bytecode", "InMemory", module, None,
             add_in_memory_module_bytecode(policy, resources, extension_module_states,
                                           module))

AddRelativePathModuleBytecode ==
    \E module \in BytecodeModules, prefix \in OnePrefix :
        Call("add_relative_path_module_bytecode", "RelativePath", module, Some(prefix),
             add_relative_path_module_bytecode(policy, resources,
                                               extension_module_states, module, prefix))

AddInMemoryPackageResource ==
    \E resource \in PackageResources :
        Call("add_in_memory_package_resource", "InMemory", resource, None,
             add_in_memory_package_resource(policy, resources, extension_module_states,
                                            resource))

AddRelativePathPackageResource ==
    \E resource \in PackageResources, prefix \in OnePrefix :
        Call("add_relative_path_package_resource", "RelativePath", resource,
             Some(prefix),
             add_relative_path_package_resource(policy, resources,
                                                extension_module_states, prefix, resource))

AddInMemoryPackageDistributionResource ==
    \E resource \in PackageDistributionResources :
        Call("add_in_memory_package_distribution_resource", "InMemory", resource, None,
             add_in_memory_package_distribution_resource(
                 policy, resources, extension_module_states, resource))

AddRelativePathPackageDistributionResource ==
    \E resource \in PackageDistributionResources, prefix \in OnePrefix :
        Call("add_relative_path_package_distribution_resource", "RelativePath",
             resource, Some(prefix),
             add_relative_path_package_distribution_resource(
                 policy, resources, extension_module_states, prefix, resource))

AddBuiltinDistributionExtensionModule ==
    \E module \in DistributionExtensionModules :
        Call("add_builtin_distribution_extension_module", "Builtin", module, None,
             add_builtin_distribution_extension_module(
                 policy, resources, extension_module_states, module))

AddInMemoryDistributionExtensionModule ==
    \E module \in DistributionExtensionModules :
        Call("add_in_memory_distribution_extension_module", "InMemory", module, None,
             add_in_memory_distribution_extension_module(
                 policy, resources, extension_module_states, module))

AddRelativePathDistributionExtensionModule ==
    \E module \in DistributionExtensionModules, prefix \in OnePrefix :
        Call("add_relative_path_distribution_extension_module", "RelativePath",
             module, Some(prefix),
             add_relative_path_distribution_extension_module(
                 policy, resources, extension_module_states, prefix, module))

AddBuiltinExtensionModule ==
    \E module \in ExtensionModules :
        Call("add_builtin_extension_module", "Builtin", module, None,
             add_builtin_extension_module(policy, resources, extension_module_states,
                                          module))

AddInMemoryExtensionModuleSharedLibrary ==
    \E i \in SharedLibraryInputs :
        Call("add_in_memory_extension_module_shared_library", "InMemory", i, None,
             add_in_memory_extension_module_shared_library(
                 policy, resources, extension_module_states,
                 i.module, i.is_package, i.data))

AddRelativePathExtensionModule ==
    \E em \in ExtensionModules, prefix \in OnePrefix :
        Call("add_relative_path_extension_module", "RelativePath", em, Some(prefix),
             add_relative_path_extension_module(policy, resources,
                                                extension_module_states, em, prefix))

FilterFromFiles ==
    \E resolved \in ResolvedNames :
        Call("filter_from_files", "None", resolved, None,
             filter_from_files(policy, resources, extension_module_states, resolved))

Package ==
    /\ \E compiler_ok \in BOOLEAN, fail_at \in 0..NumCompileCalls(resources) :
        LET r == package(resources, extension_module_states, compiler_ok, fail_at)
        IN  /\ package_ret' = Some([self |-> [resources |-> resources,
                                              extension_module_states |->
                                                  extension_module_states],
                                     ok |-> r.ok, err |-> r.err, value |-> r.value])
            /\ compile_log' = r.log
    /\ out' = None
    /\ UNCHANGED <<policy, resources, extension_module_states, ret, ops>>

\* The result the caller holds: the value of the last package() call, if it
\* returned one.
HasEmbedded == IsSome(package_ret) /\ Unwrap(package_ret).ok
Embedded == Unwrap(Unwrap(package_ret).value)

\* A read of the result: it takes &self and returns a value.
Read(value) ==
    /\ HasEmbedded
    /\ out' = Some(value)
    /\ UNCHANGED <<policy, resources, extension_module_states, ret, package_ret,
                   compile_log, ops>>

WriteBlobs == \E encode_ok \in BOOLEAN : Read(write_blobs(Embedded, encode_ok))

BuiltinExtensions == Read(builtin_extensions(Embedded))

ExtraInstallFiles == Read(extra_install_files(Embedded))

ResolveLibpythonLinkingInfo == Read(resolve_libpython_linking_info(Embedded))

\* The calls that take &mut self: the add operations and the filter.
CollectorCalls ==
    \/ AddInMemoryModuleSource
    \/ AddRelativePathModuleSource
    \/ AddInMemoryModuleBytecode
    \/ AddRelativePathModuleBytecode
    \/ AddInMemoryPackageResource
    \/ AddRelativePathPackageResource
    \/ AddInMemoryPackageDistributionResource
    \/ AddRelativePathPackageDistributionResource
    \/ AddBuiltinDistributionExtensionModule
    \/ AddInMemoryDistributionExtensionModule
    \/ AddRelativePathDistributionExtensionModule
    \/ AddBuiltinExtensionModule
    \/ AddInMemoryExtensionModuleSharedLibrary
    \/ AddRelativePathExtensionModule
    \/ FilterFromFiles

Next ==
    \/ CollectorCalls
    \/ Package
    \/ WriteBlobs
    \/ BuiltinExtensions
    \/ ExtraInstallFiles
    \/ ResolveLibpythonLinkingInfo

Spec == Init /\ [][Next]_vars

\* The collector alone.  package() and the readers take &self and write
\* neither table, so the tables reached are those of Spec.
SpecCollector == Init /\ [][CollectorCalls]_vars

\* The operations that write or read the extension module state table: the
\* two builtin adds and the filter write it, package() copies it into the
\* result, builtin_extensions() and resolve_libpython_linking_info() read it
\* there.  No other operation touches it.
NextLink ==
    \/ AddBuiltinDistributionExtensionModule
    \/ AddBuiltinExtensionModule
    \/ FilterFromFiles
    \/ Package
    \/ BuiltinExtensions
    \/ ResolveLibpythonLinkingInfo

SpecLink == Init /\ [][NextLink]_vars

----------------------------------------------------------------------------
(* The claims *)

\* The step is a call of an add_* or filter operation (ret' describes it).
IsCall == ops' = ops + 1

TablesUnchanged ==
    /\ resources' = resources
    /\ extension_module_states' = extension_module_states

\* The policy forbids the placement: in-memory only forbids relative paths,
\* filesystem-relative only forbids in-memory.
PlacementForbidden(pol, location) ==
    \/ pol = "InMemoryOnly" /\ location = "RelativePath"
    \/ pol = "FilesystemRelativeOnly" /\ location = "InMemory"

\* C1: every add_in_memory_* and add_relative_path_* call whose placement the
\* policy forbids returns an error and leaves the resource table and the
\* extension module state table as they were.
C1_ForbiddenAddFailsUnchanged ==
    [][(IsCall /\ PlacementForbidden(policy, ret'.location))
          => (~ret'.ok /\ TablesUnchanged)]_vars

\* A relative-path distribution extension module, shared library present, was
\* refused under the in-memory-only policy, the tables holding an earlier add.
C1_Witness ==
    /\ policy = "InMemoryOnly"
    /\ ret.op = "add_relative_path_distribution_extension_module"
    /\ IsSome(ret.arg.shared_library)
    /\ ~ret.ok
    /\ DOMAIN resources # {}
    /\ DOMAIN extension_module_states # {}

ProperAncestors(name) ==
    {a \in {SubSeq(name, 1, i) : i \in 0..Len(name)} : a # <<>> /\ a # name}

\* C2: in a result of package(), every proper dotted ancestor of every name of
\* the result's resource table or of the extension module state table is a key
\* of the result's resource table, and its entry is a package.
C2_AncestorsArePackages ==
    HasEmbedded =>
        \A name \in DOMAIN Embedded.resources \cup DOMAIN Embedded.extension_modules :
            \A a \in ProperAncestors(name) :
                /\ a \in DOMAIN Embedded.resources
                /\ Embedded.resources[a].is_package

\* foo was added as a module that is not a package, foo.bar only as a builtin
\* extension module: the result has foo as a package.
C2_Witness ==
    /\ HasEmbedded
    /\ <<"foo", "bar">> \in DOMAIN Embedded.extension_modules
    /\ <<"foo", "bar">> \notin DOMAIN Embedded.resources
    /\ <<"foo">> \in DOMAIN Unwrap(package_ret).self.resources
    /\ ~Unwrap(package_ret).self.resources[<<"foo">>].is_package
    /\ Embedded.resources[<<"foo">>].is_package

OutIs(op) == IsSome(out) /\ Unwrap(out).op = op

\* C3: write_blobs() writes one line per entry of the resource table, the
\* i-th line naming the i-th entry handed to the resource-table encoder, and
\* the lines are in ascending order of name whatever the order of the adds.
C3_WriteBlobsOrder ==
    OutIs("write_blobs") =>
        LET names == Unwrap(out).module_names
            input == Unwrap(out).encoder_input
        IN  /\ Len(names) = Cardinality(DOMAIN Embedded.resources)
            /\ Len(input) = Len(names)
            /\ \A i \in 1..Len(names) :
                   /\ names[i] \in DOMAIN Embedded.resources
                   /\ input[i] = Embedded.resources[names[i]]
            /\ \A i, j \in 1..Len(names) : i < j => NameLess(names[i], names[j])

\* z was added first and foo second; foo is the first line and z the second.
C3_Witness ==
    /\ OutIs("write_blobs")
    /\ ret.op = "add_in_memory_module_source" /\ ret.ok
    /\ ret.arg.name = <<"foo">>
    /\ Unwrap(out).module_names = << <<"foo">>, <<"z">> >>

StatesUnion(st, field) == UNION {st[k][field] : k \in DOMAIN st}

\* C4: resolve_libpython_linking_info() returns, per category, the union over
\* all extension module states of that category's names (link_libraries: the
\* static and the dynamic libraries), and object_files is the concatenation of
\* the states' object file lists in ascending order of module name.
C4_LinkingInfoIsUnion ==
    OutIs("resolve_libpython_linking_info") =>
        LET st   == Embedded.extension_modules
            info == Unwrap(out).value
        IN  /\ info.link_frameworks = StatesUnion(st, "link_frameworks")
            /\ info.link_system_libraries = StatesUnion(st, "link_system_libraries")
            /\ info.link_libraries = StatesUnion(st, "link_static_libraries")
                                        \cup StatesUnion(st, "link_dynamic_libraries")
            /\ info.link_libraries_external = StatesUnion(st, "link_external_libraries")
            /\ info.object_files =
                   Flatten([i \in 1..Len(SortedKeys(DOMAIN st)) |->
                               st[SortedKeys(DOMAIN st)[i]].link_object_files])

\* Two modules both require the system library z, one of them a dynamic and a
\* static library, the other an object file.
C4_Witness ==
    /\ OutIs("resolve_libpython_linking_info")
    /\ DOMAIN Embedded.extension_modules = {<<"foo", "bar">>, <<"z">>}
    /\ \A k \in DOMAIN Embedded.extension_modules :
           <<"z">> \in Embedded.extension_modules[k].link_system_libraries
    /\ Unwrap(out).value.link_system_libraries = {<<"z">>}
    /\ Unwrap(out).value.link_libraries = {<<"z">>, <<"ssl">>}
    /\ Len(Unwrap(out).value.object_files) = 1

\* A call of one of the two placing adds of a distribution extension module,
\* the module having no shared library.
NoSharedLibraryCall ==
    /\ IsCall
    /\ ret'.op \in {"add_in_memory_distribution_extension_module",
                    "add_relative_path_distribution_extension_module"}
    /\ ret'.arg.shared_library = None

\* C5 as stated: adding a distribution extension module that has no shared
\* library, in memory or at a relative path, returns an error that names the
\* module and leaves both tables unchanged.
C5_Original ==
    [][NoSharedLibraryCall =>
          /\ ~ret'.ok
          /\ Unwrap(ret'.err).module = Some(ret'.arg.module)
          /\ TablesUnchanged]_vars

\* C5: adding a distribution extension module that has no shared library, in
\* memory or at a relative path, returns an error and leaves both tables
\* unchanged.  The error is the missing payload error naming the module,
\* except that the relative path variant under a policy that forbids relative
\* paths returns the policy error, which names no module.
C5_NoSharedLibraryFails ==
    [][NoSharedLibraryCall =>
          /\ ~ret'.ok
          /\ TablesUnchanged
          /\ IF /\ ret'.op = "add_relative_path_distribution_extension_module"
                /\ PlacementForbidden(policy, "RelativePath")
             THEN Unwrap(ret'.err) = [kind |-> "PolicyViolation", module |-> None]
             ELSE Unwrap(ret'.err) = [kind |-> "MissingPayload",
                                      module |-> Some(ret'.arg.module)]]_vars

\* The relative path variant, allowed by the policy, rejected a module without
\* a shared library, the tables holding an earlier add.
C5_Witness ==
    /\ ret.op = "add_relative_path_distribution_extension_module"
    /\ ret.arg.shared_library = None
    /\ ~PlacementForbidden(policy, "RelativePath")
    /\ ~ret.ok
    /\ Unwrap(ret.err).module = Some(ret.arg.module)
    /\ DOMAIN resources # {}

\* C7: builtin_extensions() returns exactly the pairs (module name, initializer
\* symbol) of the extension module states that have an init_fn, in ascending
\* order of module name, and no pair for a state without an init_fn.
C7_BuiltinExtensions ==
    OutIs("builtin_extensions") =>
        LET st == Embedded.extension_modules
            v  == Unwrap(out).value
        IN  /\ {v[i] : i \in 1..Len(v)} =
                   {<<k, Unwrap(st[k].init_fn)>> :
                       k \in {n \in DOMAIN st : IsSome(st[n].init_fn)}}
            /\ \A i, j \in 1..Len(v) : i < j => NameLess(v[i][1], v[j][1])
            /\ \A i \in 1..Len(v) : IsSome(st[v[i][1]].init_fn)

\* Of two extension module states, z has no init_fn and is left out.
C7_Witness ==
    /\ OutIs("builtin_extensions")
    /\ DOMAIN Embedded.extension_modules = {<<"foo", "bar">>, <<"z">>}
    /\ Embedded.extension_modules[<<"z">>].init_fn = None
    /\ Unwrap(out).value = << << <<"foo", "bar">>, "PyInit_bar" >> >>

\* C6 as stated: the derived file installs hold one file per payload placed at
\* a relative path, at the path derived from the prefix and the dotted name
\* (foo.py for module foo and prefix "", prefix/foo/bar.so for extension
\* module foo.bar and prefix "prefix"), its content the payload's bytes, a
\* module source not executable and an extension module's shared library
\* executable.
C6_Original ==
    LET m == derive_extra_files(resources)
    IN  IsSome(m) =>
            /\ Cardinality(DOMAIN Unwrap(m)) = Len(derive_file_installs(resources))
            /\ \A k \in DOMAIN resources :
                 /\ IsSome(resources[k].relative_path_module_source) =>
                       LET t == Unwrap(resources[k].relative_path_module_source)
                           p == ModulePath(t[1], k, resources[k].is_package, ".py")
                       IN  /\ p \in DOMAIN Unwrap(m)
                           /\ Unwrap(m)[p] = [data |-> Unwrap(Resolve(t[2])),
                                              executable |-> FALSE]
                 /\ IsSome(resources[k].relative_path_extension_module_shared_library) =>
                       LET t == Unwrap(resources[k]
                                          .relative_path_extension_module_shared_library)
                           p == ModulePath(t[1], k, resources[k].is_package, ".so")
                       IN  /\ p \in DOMAIN Unwrap(m)
                           /\ Unwrap(m)[p] = [data |-> Unwrap(Resolve(t[3])),
                                              executable |-> TRUE]

\* Per optimization level: the bytecode source fields of a collector entry and
\* the bytecode fields of a result entry.
LevelFields ==
    << [level |-> 0,
        in_memory_source |-> "in_memory_bytecode_source",
        in_memory_field  |-> "in_memory_bytecode",
        relative_source  |-> "relative_path_bytecode_source",
        relative_field   |-> "relative_path_module_bytecode"],
       [level |-> 1,
        in_memory_source |-> "in_memory_bytecode_opt1_source",
        in_memory_field  |-> "in_memory_bytecode_opt1",
        relative_source  |-> "relative_path_bytecode_opt1_source",
        relative_field   |-> "relative_path_module_bytecode_opt1"],
       [level |-> 2,
        in_memory_source |-> "in_memory_bytecode_opt2_source",
        in_memory_field  |-> "in_memory_bytecode_opt2",
        relative_source  |-> "relative_path_bytecode_opt2_source",
        relative_field   |-> "relative_path_module_bytecode_opt2"] >>

\* C8 as stated: for every entry of the packaged collector and every level L,
\* a relative path bytecode source at level L gives the result entry's relative
\* path bytecode field of level L the destination path, the auxiliary files
\* holding the level-L compiled bytes there, not executable; an in-memory
\* bytecode source at level L gives the in-memory bytecode field of level L
\* the compiler's output for level L; a level without a source leaves its
\* fields unset.
C8_Original ==
    HasEmbedded =>
        LET src == Unwrap(package_ret).self.resources
        IN  \A k \in DOMAIN src : \A i \in 1..Len(LevelFields) :
              LET f   == LevelFields[i]
                  mem == src[k][f.in_memory_source]
                  rel == src[k][f.relative_source]
                  got == Embedded.resources[k]
              IN  /\ IF IsSome(mem)
                     THEN got[f.in_memory_field] =
                              Some(Compile([source |-> Unwrap(Resolve(Unwrap(mem))),
                                            name |-> k, level |-> f.level,
                                            mode |-> "Bytecode"]))
                     ELSE got[f.in_memory_field] = None
                  /\ IF IsSome(rel)
                     THEN \E is_package \in BOOLEAN :
                            LET t == Unwrap(rel)
                                p == BytecodePath(t[1], k, is_package, t[2], f.level)
                            IN  /\ got[f.relative_field] = Some(p)
                                /\ p \in DOMAIN Embedded.extra_files
                                /\ Embedded.extra_files[p] =
                                       [data |-> Compile([source |-> Unwrap(Resolve(t[3])),
                                                          name |-> k, level |-> f.level,
                                                          mode |-> "PycUncheckedHash"]),
                                        executable |-> FALSE]
                     ELSE got[f.relative_field] = None

\* C9 as stated: once package() has returned a result, no later package() call
\* on the same collector returns a result, and no add or filter call changes
\* the collector's resource table or extension module state table.
C9_Original ==
    [][HasEmbedded =>
          /\ TablesUnchanged
          /\ package_ret' # package_ret => ~Unwrap(package_ret').ok]_vars

IsFilterCall == IsCall /\ ret'.op = "filter_from_files"

\* Table m restricted to the names: the entries kept are unchanged and in
\* their former relative order.
Restricted(after, before, names) ==
    /\ DOMAIN after = DOMAIN before \cap names
    /\ \A k \in DOMAIN after : after[k] = before[k]
    /\ Keys(after) = SelectSeq(Keys(before), LAMBDA k : k \in names)

FilterApplied(names) ==
    /\ Restricted(resources', resources, names)
    /\ Restricted(extension_module_states', extension_module_states, names)

\* C10 as stated: filter_from_files returns success for every set of files and
\* patterns, and afterwards each table holds exactly its former entries whose
\* names are in the resolved name set, unchanged and in the same relative order.
C10_Original ==
    [][IsFilterCall => (ret'.ok /\ FilterApplied(Unwrap(ret'.arg)))]_vars

\* C10: filter_from_files fails when resolve_resource_names_from_files fails,
\* and then both tables are unchanged; otherwise it returns success, and
\* afterwards each table holds exactly its former entries whose names are in
\* the resolved name set, unchanged and in the same relative order.
C10_FilterFromFiles ==
    [][IsFilterCall =>
          IF ret'.arg = None
          THEN ~ret'.ok /\ TablesUnchanged
          ELSE ret'.ok /\ FilterApplied(Unwrap(ret'.arg))]_vars

\* A filter after an add and a package(): of the collector that was packaged,
\* some entries were dropped and some were kept.
C10_Witness ==
    /\ ret.op = "filter_from_files" /\ ret.ok
    /\ IsSome(package_ret)
    /\ DOMAIN resources # {}
    /\ DOMAIN resources # DOMAIN Unwrap(package_ret).self.resources
    /\ DOMAIN resources \subseteq DOMAIN Unwrap(package_ret).self.resources
    /\ \A k \in DOMAIN resources : k \in Unwrap(ret.arg)

\* The (entry, level) pairs of table src that carry a relative path bytecode
\* source.
RelativeBytecodeSources(src) ==
    {<<k, i>> \in (DOMAIN src) \X (1..Len(LevelFields)) :
        IsSome(src[k][LevelFields[i].relative_source])}

\* p holds the bytecode compiled from the relative path bytecode source of
\* entry k at level LevelFields[i].
IsBytecodeFile(files, p, src, k, i) ==
    LET t == Unwrap(src[k][LevelFields[i].relative_source])
    IN  /\ \E is_package \in BOOLEAN :
               p = BytecodePath(t[1], k, is_package, t[2], LevelFields[i].level)
        /\ p \in DOMAIN files
        /\ files[p] = [data |-> Compile([source |-> Unwrap(Resolve(t[3])), name |-> k,
                                         level |-> LevelFields[i].level,
                                         mode |-> "PycUncheckedHash"]),
                       executable |-> FALSE]

\* The manifest extra_install_files() returned is made of the file installs
\* derived from the packaged collector and of one bytecode file per relative
\* path bytecode source, and of nothing else.
ManifestIsUnion ==
    OutIs("extra_install_files") =>
        LET files    == Unwrap(out).value
            src      == Unwrap(package_ret).self.resources
            installs == Unwrap(derive_extra_files(src))
        IN  /\ files = Embedded.extra_files
            /\ \A p \in DOMAIN installs : p \in DOMAIN files /\ files[p] = installs[p]
            /\ \A s \in RelativeBytecodeSources(src) :
                   \E p \in DOMAIN files : IsBytecodeFile(files, p, src, s[1], s[2])
            /\ \A p \in DOMAIN files \ DOMAIN installs :
                   \E s \in RelativeBytecodeSources(src) :
                       IsBytecodeFile(files, p, src, s[1], s[2])
            /\ Cardinality(DOMAIN files) =
                   Cardinality(DOMAIN installs)
                       + Cardinality(RelativeBytecodeSources(src))

\* C11: after a successful package(), extra_install_files() returns exactly
\* the union of the collector's derived file installs and of the bytecode
\* files written for the relative path bytecode sources (one per entry and
\* level), and a call leaves the result as it was, so that every call returns
\* the same manifest.
C11_ExtraInstallFiles ==
    /\ []ManifestIsUnion
    /\ [][OutIs("extra_install_files")' => package_ret' = package_ret]_vars

\* The manifest returned holds the source file of foo and the bytecode file
\* compiled for foo.
C11_Witness ==
    /\ OutIs("extra_install_files")
    /\ DOMAIN Unwrap(out).value =
           {"prefix/foo.py", "prefix/__pycache__/foo.cpython-37.pyc"}
    /\ DOMAIN Unwrap(derive_extra_files(Unwrap(package_ret).self.resources)) =
           {"prefix/foo.py"}

\* Table after is table before with the entry of key replaced by (or created
\* as) value.
EntrySet(after, before, key, value) ==
    /\ DOMAIN after = DOMAIN before \cup {key}
    /\ after[key] = value
    /\ \A k \in DOMAIN before \ {key} : after[k] = before[k]

\* C12: add_builtin_extension_module on a module with object file data
\* succeeds and creates or replaces the extension module state of that name:
\* init_fn is the module's, the object files are the payloads in the given
\* order, each in memory, the framework, system, static and dynamic library
\* sets are empty and the external library set is the set of the module's
\* libraries.
C12_AddBuiltinExtensionModule ==
    [][(/\ IsCall
        /\ ret'.op = "add_builtin_extension_module"
        /\ ret'.arg.object_file_data # <<>>) =>
          LET module == ret'.arg
          IN  /\ ret'.ok
              /\ EntrySet(extension_module_states', extension_module_states,
                          module.name,
                          [init_fn |-> module.init_fn,
                           link_object_files |->
                               [i \in 1..Len(module.object_file_data) |->
                                   [kind |-> "Memory",
                                    data |-> module.object_file_data[i]]],
                           link_frameworks |-> {},
                           link_system_libraries |-> {},
                           link_static_libraries |-> {},
                           link_dynamic_libraries |-> {},
                           link_external_libraries |->
                               {module.libraries[i] : i \in 1..Len(module.libraries)}])]_vars

\* After module z, the module of the test (payload [42], no libraries) was
\* added: its state has one object file wrapping [42] and every set empty.
C12_Witness ==
    /\ ret.op = "add_builtin_extension_module" /\ ret.ok
    /\ ret.arg.object_file_data = << <<42>> >> /\ ret.arg.libraries = <<>>
    /\ DOMAIN extension_module_states = {<<"foo", "bar">>, <<"z">>}
    /\ extension_module_states[<<"foo", "bar">>] =
           [init_fn |-> Some(""),
            link_object_files |-> <<[kind |-> "Memory", data |-> <<42>>]>>,
            link_frameworks |-> {}, link_system_libraries |-> {},
            link_static_libraries |-> {}, link_dynamic_libraries |-> {},
            link_external_libraries |-> {}]

LinkSetFields ==
    {"link_frameworks", "link_system_libraries", "link_static_libraries",
     "link_dynamic_libraries", "link_external_libraries"}

\* C13 as stated: in every extension module state the framework, system,
\* static, dynamic and external library sets are pairwise disjoint.
C13_Original ==
    \A k \in DOMAIN extension_module_states :
        \A f, g \in LinkSetFields :
            f # g => extension_module_states[k][f] \cap extension_module_states[k][g] = {}

RelativeBytecodeFields ==
    {LevelFields[i].relative_field : i \in 1..Len(LevelFields)}

\* C14 as stated: for every entry of the packaged collector with a relative
\* path bytecode source, the destination path registered as an auxiliary file
\* and recorded in the result entry is the path derived from the is_package
\* flag the entry has in the result.
C14_Original ==
    HasEmbedded =>
        LET src == Unwrap(package_ret).self.resources
        IN  \A k \in DOMAIN src :
              LET got  == Embedded.resources[k]
                  Path(i) ==
                      LET t == Unwrap(src[k][LevelFields[i].relative_source])
                      IN  BytecodePath(t[1], k, got.is_package, t[2], LevelFields[i].level)
                  levels == {i \in 1..Len(LevelFields) :
                                IsSome(src[k][LevelFields[i].relative_source])}
              IN  /\ \A i \in levels : Path(i) \in DOMAIN Embedded.extra_files
                  /\ \A f \in RelativeBytecodeFields :
                         IsSome(got[f]) => \E i \in levels : Unwrap(got[f]) = Path(i)


----------------------------------------------------------------------------
(* C15, C16: the compiler calls of package() *)

\* The bytecode sources of a collector table: one per entry, optimization
\* level and placement whose source field is set, with the mode its compiler
\* call has and the location its payload is read from.
BytecodeSources(src) ==
    UNION {
        {[name |-> k, level |-> LevelFields[i].level, mode |-> "Bytecode",
          location |-> Unwrap(src[k][LevelFields[i].in_memory_source])] :
            i \in {j \in 1..Len(LevelFields) :
                     IsSome(src[k][LevelFields[j].in_memory_source])}}
        \cup
        {[name |-> k, level |-> LevelFields[i].level, mode |-> "PycUncheckedHash",
          location |-> Unwrap(src[k][LevelFields[i].relative_source])[3]] :
            i \in {j \in 1..Len(LevelFields) :
                     IsSome(src[k][LevelFields[j].relative_source])}}
        : k \in DOMAIN src}

\* The compiler call of a bytecode source whose payload can be read.
CallOf(s) ==
    [source |-> Unwrap(Resolve(s.location)), name |-> s.name, level |-> s.level,
     mode |-> s.mode]

\* The last package() run had a compiler call that failed / a bytecode source
\* whose payload could not be read.
CompileFailed == \E j \in 1..Len(compile_log) : ~compile_log[j].ok
UnreadableSources ==
    {s \in BytecodeSources(Unwrap(package_ret).self.resources) :
        Resolve(s.location) = None}

PackageStopped ==
    IsSome(package_ret) /\ (CompileFailed \/ UnreadableSources # {}) =>
        /\ ~Unwrap(package_ret).ok
        /\ IsSome(Unwrap(package_ret).err)
        /\ Unwrap(package_ret).value = None
        \* no call after the failing one
        /\ \A j \in 1..(Len(compile_log) - 1) : compile_log[j].ok
        \* no call for a source that cannot be read, nor for a later module
        /\ \A s \in UnreadableSources : \A j \in 1..Len(compile_log) :
              /\ ~(/\ compile_log[j].call.name = s.name
                    /\ compile_log[j].call.level = s.level
                    /\ compile_log[j].call.mode = s.mode)
              /\ ~NameLess(s.name, compile_log[j].call.name)

\* C15: if a compiler call or the read of a bytecode source fails during
\* package(), package() returns an error and no result, no compiler call
\* follows the failing one, and the run leaves both collector tables as they
\* were.
C15_PackageFailure ==
    /\ []PackageStopped
    /\ [][package_ret' # package_ret =>
            /\ resources' = resources
            /\ extension_module_states' = extension_module_states]_vars

\* package() ran on foo with sources at levels 0 and 1: the first compiler call
\* failed, and it is the only one made.
C15_Witness ==
    /\ IsSome(package_ret)
    /\ ~Unwrap(package_ret).ok
    /\ Cardinality(BytecodeSources(Unwrap(package_ret).self.resources)) = 2
    /\ UnreadableSources = {}
    /\ Len(compile_log) = 1
    /\ ~compile_log[1].ok
    /\ Unwrap(package_ret).err
          = Some([kind |-> "CompileError", module |-> Some(<<"foo">>)])
    /\ resources = Unwrap(package_ret).self.resources

\* package() ran on foo.bar with a level 0 source and a level 1 source whose
\* file cannot be read: the level 0 call was made, then the run stopped.
C15_WitnessRead ==
    /\ IsSome(package_ret)
    /\ ~Unwrap(package_ret).ok
    /\ UnreadableSources # {}
    /\ Len(compile_log) = 1
    /\ compile_log[1].ok
    /\ compile_log[1].call.name = <<"foo", "bar">>


\* The calls of a run are in ascending order of module name.
CallsAscend ==
    \A i, j \in 1..Len(compile_log) :
        i < j => \/ compile_log[i].call.name = compile_log[j].call.name
                 \/ NameLess(compile_log[i].call.name, compile_log[j].call.name)

\* C16: during a successful package() the compiler is called exactly once for
\* each (module, level, placement) that has a bytecode source and for nothing
\* else, one call after the other in ascending order of module name, in
\* Bytecode mode for an in-memory source and in unchecked-hash pyc mode for a
\* relative-path source.
C16_CompilerCalls ==
    HasEmbedded =>
        LET sources == BytecodeSources(Unwrap(package_ret).self.resources)
        IN  /\ Len(compile_log) = Cardinality(sources)
            /\ \A s \in sources :
                  \E j \in 1..Len(compile_log) :
                      compile_log[j] = [call |-> CallOf(s), ok |-> TRUE]
            /\ CallsAscend

\* package() succeeded on foo with an in-memory source and foo.bar with a
\* relative-path source: two calls, foo's first, each in the mode of its
\* placement.
C16_Witness ==
    /\ HasEmbedded
    /\ Len(compile_log) = 2
    /\ compile_log[1].call.name = <<"foo">>
    /\ compile_log[1].call.mode = "Bytecode"
    /\ compile_log[2].call.name = <<"foo", "bar">>
    /\ compile_log[2].call.mode = "PycUncheckedHash"


----------------------------------------------------------------------------
(* C17: add_builtin_distribution_extension_module *)

\* C17: add_builtin_distribution_extension_module succeeds whatever the
\* policy, leaves the resource table as it was, and leaves under the module's
\* name one extension module state, the other states being untouched: its
\* init_fn is the module's; its object files are none if the module is
\* builtin_default, and else the module's object paths in order, each as a
\* path; if the module has no links, its five library sets are empty.
C17_AddBuiltinDistributionExtensionModule ==
    [][(IsCall /\ ret'.op = "add_builtin_distribution_extension_module") =>
          LET module == ret'.arg
              state  == extension_module_states'[module.module]
          IN  /\ ret'.ok
              /\ resources' = resources
              /\ DOMAIN extension_module_states'
                    = DOMAIN extension_module_states \cup {module.module}
              /\ \A k \in DOMAIN extension_module_states \ {module.module} :
                    extension_module_states'[k] = extension_module_states[k]
              /\ state.init_fn = module.init_fn
              /\ module.builtin_default => state.link_object_files = <<>>
              /\ ~module.builtin_default =>
                    state.link_object_files =
                        [i \in 1..Len(module.object_paths) |->
                            [kind |-> "Path", path |-> module.object_paths[i]]]
              /\ module.links = <<>> =>
                    \A f \in LinkSetFields : state[f] = {}]_vars

\* Under the policy that allows relative paths only, with a resource in the
\* table, module z (one object path, not builtin_default) was added: the call
\* succeeded and the state holds that path.
C17_Witness ==
    /\ policy = "FilesystemRelativeOnly"
    /\ ret.op = "add_builtin_distribution_extension_module" /\ ret.ok
    /\ ~ret.arg.builtin_default
    /\ DOMAIN resources # {}
    /\ extension_module_states[<<"z">>].link_object_files =
           <<[kind |-> "Path", path |-> [dir |-> "build", file |-> <<"z", "o">>]]>>
    /\ extension_module_states[<<"z">>].init_fn = Some("PyInit_z")

\* The module of test_add_distribution_extension_module, with no links and no
\* object paths, was added: every set of its state is empty.
C17_WitnessNoLinks ==
    /\ ret.op = "add_builtin_distribution_extension_module" /\ ret.ok
    /\ ret.arg.links = <<>>
    /\ extension_module_states[<<"foo", "bar">>] =
           [init_fn |-> None, link_object_files |-> <<>>,
            link_frameworks |-> {}, link_system_libraries |-> {},
            link_static_libraries |-> {}, link_dynamic_libraries |-> {},
            link_external_libraries |-> {}]


----------------------------------------------------------------------------
(* C18: the name of an entry and its key *)

\* C18 as stated: every entry of the collector's resource table has a name
\* equal to the key it is stored under.
C18_Original == \A k \in DOMAIN resources : resources[k].name = k

====
